---- MODULE Spec2Model ----
(***************************************************************************)
(* The ReAct loop of the openai-client package: performReActLoop,          *)
(* getCompletion, handleToolCalls, toolsMap and AddMessages, for the two    *)
(* builds of the client that carry AddMessages (client.go and the variant   *)
(* with status classification, unnamed/part_003); the oldest build          *)
(* (unnamed/part_002) under SpecLegacy; GetCompletion's choice of the model *)
(* under SpecModel; and the functions of errors.go under SpecErrors.        *)
(*                                                                          *)
(* Conventions: a Go pointer or error that may be nil is a sequence of      *)
(* length 0 (nil) or 1; a Go string that the program concatenates is a      *)
(* sequence of its pieces, so "" is << >>.                                  *)
(***************************************************************************)
EXTENDS Integers, Sequences, FiniteSets, TLC

\* ------------------------------------------------------------- bounds
\* The largest iteration ceiling a run is started with.
MaxIter == 2
\* The largest number of tool calls one assistant message carries.
MaxCalls == 2

\* ------------------------------------------------------- program constants
StatusOK == 200
StatusBadRequest == 400
StatusUnauthorized == 401
StatusNotFound == 404
StatusTooManyRequests == 429
StatusInternalServerError == 500
StatusServiceUnavailable == 503

ErrTypeInvalidRequest == "invalid_request_error"
ErrTypeAuthentication == "authentication_error"
ErrTypeRateLimit == "rate_limit_error"
ErrTypeServiceUnavailable == "service_unavailable"
ErrTypeNotFound == "not_found"

MessageRoleUser == "user"
MessageRoleAssistant == "assistant"
MessageRoleSystem == "system"
MessageRoleTool == "tool"

\* The two builds of the client.
Versions == {"client.go", "part_003"}

\* The oldest build (unnamed/part_002): openAiRequest in place of
\* getCompletion, a payload without NewMessages, the content as the result.
LegacyVersions == {"part_002"}

\* ------------------------------------------------------------- helpers
Last(s) == s[Len(s)]

IsPrefix(s, t) == Len(s) <= Len(t) /\ SubSeq(t, 1, Len(s)) = s

\* ------------------------------------------------------------- messages
\* schemas.go Message; Name is never set or read by the loop.
Message(role, content, toolCalls, toolCallId) ==
    [Role |-> role, Content |-> content, ToolCalls |-> toolCalls,
     ToolCallId |-> toolCallId]

\* schemas.go ToolCall with its FunctionCall.
ToolCall(id, name, arguments) ==
    [Id |-> id, Type |-> "function",
     Function |-> [Name |-> name, Arguments |-> arguments]]

\* schemas.go FunctionDefinition inside a ToolDefinition; Fn "nil" is a nil
\* callable.
NewToolDefinition(name, fn) ==
    [Type |-> "function", Function |-> <<[Name |-> name, Fn |-> fn]>>]

\* A ToolDefinition whose Function pointer is nil.
NilFunctionTool == [Type |-> "function", Function |-> << >>]

\* ------------------------------------------------------------- errors
\* An error value: the OpenAIError fields (empty for other errors) and its
\* Unwrap chain, outermost first; each link is the dynamic type (class) and the
\* text that error adds.
\* fmt.Errorf("text: %w", wrapped), or fmt.Errorf("text") when wrapped is nil.
fmtErrorf(text, wrapped) ==
    [Type |-> "", Code |-> "",
     chain |-> <<[class |-> "fmt", text |-> text]>>
               \o (IF wrapped = << >> THEN << >> ELSE wrapped[1].chain)]

\* An error of net/http, io or encoding/json: one link.
leafError(class, text) ==
    [Type |-> "", Code |-> "", chain |-> <<[class |-> class, text |-> text]>>]

\* errors.go OpenAIError: Type, Message, Code.
OpenAIError(type, message, code) ==
    [Type |-> type, Code |-> code,
     chain |-> <<[class |-> "OpenAIError", text |-> message]>>]

\* errors.Unwrap: the error a fmt.Errorf("%w") error wraps, nil otherwise.
Unwrap(e) ==
    IF Len(e.chain) > 1 THEN <<[Type |-> "", Code |-> "", chain |-> Tail(e.chain)]>>
    ELSE << >>

\* strings.Contains(e.Error(), text) for the text of one link.
ErrorContains(e, text) == \E i \in 1..Len(e.chain) : e.chain[i].text = text

NewInvalidRequestError(message) == OpenAIError(ErrTypeInvalidRequest, message, "")

StatusType(statusCode) ==
    CASE statusCode = StatusBadRequest -> ErrTypeInvalidRequest
      [] statusCode = StatusUnauthorized -> ErrTypeAuthentication
      [] statusCode = StatusTooManyRequests -> ErrTypeRateLimit
      [] statusCode = StatusServiceUnavailable -> ErrTypeServiceUnavailable
      [] statusCode = StatusNotFound -> ErrTypeNotFound
      [] OTHER -> "unknown_error"

NewAuthenticationError(message) == OpenAIError(ErrTypeAuthentication, message, "")

NewRateLimitError(message) == OpenAIError(ErrTypeRateLimit, message, "")

NewServiceUnavailableError(message) ==
    OpenAIError(ErrTypeServiceUnavailable, message, "")

NewNotFoundError(message) == OpenAIError(ErrTypeNotFound, message, "")

\* IsOpenAIError with a type assertion in place of errors.As.
IsOpenAIErrorAsserted(e) == e # << >> /\ e[1].chain[1].class = "OpenAIError"

\* errors.go IsOpenAIError: errors.As walks the Unwrap chain of err.
IsOpenAIError(e) ==
    e # << >> /\ \E i \in DOMAIN e[1].chain : e[1].chain[i].class = "OpenAIError"

\* errors.go GetOpenAIErrorType: the type assertion looks at err itself.
GetOpenAIErrorType(e) ==
    IF e # << >> /\ e[1].chain[1].class = "OpenAIError" THEN e[1].Type ELSE ""

\* NewOpenAIError that lets the status decide the type whenever it knows the
\* status.
NewOpenAIErrorStatusFirst(statusCode, body) ==
    IF ~body.json
    THEN fmtErrorf("request failed with status", << >>)
    ELSE OpenAIError(IF StatusType(statusCode) = "unknown_error" /\ body.type # ""
                     THEN body.type ELSE StatusType(statusCode),
                     body.message, body.code)

\* errors.go NewOpenAIError: body is a decoded view of the response text.
NewOpenAIError(statusCode, body) ==
    IF ~body.json
    THEN fmtErrorf("request failed with status", << >>)
    ELSE OpenAIError(IF body.type = "" THEN StatusType(statusCode) ELSE body.type,
                     body.message, body.code)

\* ------------------------------------------------------------- payload
\* AddMessages with an assignment in place of the append.
AddMessagesAssign(c, messages) ==
    [c EXCEPT !.Messages = messages, !.NewMessages = @ \o messages]

\* AddMessages that appends to Messages alone.
AddMessagesOnlyMessages(c, messages) == [c EXCEPT !.Messages = @ \o messages]

\* schemas.go AddMessages.
AddMessages(c, messages) ==
    [c EXCEPT !.Messages = @ \o messages, !.NewMessages = @ \o messages]

\* toolsMap keeping the first definition of a name, not the last.
RECURSIVE toolsMapUpToFirstWins(_, _)
toolsMapUpToFirstWins(tools, k) ==
    IF k = 0 THEN [panic |-> FALSE, map |-> << >>]
    ELSE LET prev == toolsMapUpToFirstWins(tools, k - 1)
             tool == tools[k]
         IN IF prev.panic \/ tool.Function = << >>
            THEN [panic |-> TRUE, map |-> << >>]
            ELSE [panic |-> FALSE,
                  map |-> prev.map @@ (tool.Function[1].Name :> tool.Function[1])]

\* schemas.go toolsMap: the loop over c.Tools, each entry overwriting the
\* entry of the same name. panic is the nil dereference of tool.Function.
RECURSIVE toolsMapUpTo(_, _)
toolsMapUpTo(tools, k) ==
    IF k = 0 THEN [panic |-> FALSE, map |-> << >>]
    ELSE LET prev == toolsMapUpTo(tools, k - 1)
             tool == tools[k]
         IN IF prev.panic \/ tool.Function = << >>
            THEN [panic |-> TRUE, map |-> << >>]
            ELSE [panic |-> FALSE,
                  map |-> (tool.Function[1].Name :> tool.Function[1]) @@ prev.map]

toolsMap(c) == toolsMapUpTo(c.Tools, Len(c.Tools))

\* The callable bound to a tool, applied to the raw arguments.
Call(fn, arguments) == <<fn, arguments>>

\* ------------------------------------------------------------- transport
\* What the remote side can put in an assistant message: every sequence of
\* 1..MaxCalls tool calls over CallNames, with the ids and arguments the
\* remote side assigns by position.
CallNames == {"echo", "nope"}
CallIds == <<"t1", "t2", "t3", "t4">>
CallArgs == <<"a1", "a2", "a3", "a4">>

ToolCallsOf(names) ==
    [i \in 1..Len(names) |-> ToolCall(CallIds[i], names[i], CallArgs[i])]

ToolCallSeqs ==
    {ToolCallsOf(names) : names \in UNION {[1..n -> CallNames] : n \in 1..MaxCalls}}

FinalMessages ==
    {Message(MessageRoleAssistant, <<"done">>, << >>, ""),
     Message(MessageRoleAssistant, << >>, << >>, "")}

ToolCallMessages ==
    {Message(MessageRoleAssistant, << >>, tcs, "") : tcs \in ToolCallSeqs}

AssistantMessages == FinalMessages \cup ToolCallMessages

\* A response body as the two decoders see it: json says whether it is a JSON
\* object; type, message and code are what OpenAIError decodes from it;
\* choices is what CompletionResponse decodes from it.
Body(json, type, message, code, choices) ==
    [json |-> json, type |-> type, message |-> message, code |-> code,
     choices |-> choices]

Choice(message) == [Message |-> <<message>>]
NilChoice == [Message |-> << >>]

CompletionBody(choices) == Body(TRUE, "", "", "", choices)
Garbage == Body(FALSE, "", "", "", << >>)

\* What one call of o.client.Do and the read of its body give: doErr is the
\* error of Do, readErr the error of io.ReadAll.
Response(doErr, readErr, statusCode, body) ==
    [doErr |-> doErr, readErr |-> readErr, StatusCode |-> statusCode, body |-> body]

HttpResponse(statusCode, body) == Response(<< >>, << >>, statusCode, body)

TransportError == leafError("transport", "openai request failed")
ReadError == leafError("io", "unexpected EOF")
DecodeError == leafError("json", "invalid character")
MarshalError == leafError("json", "unsupported type")

Responses ==
    {Response(<<TransportError>>, << >>, 0, Garbage),
     Response(<< >>, <<ReadError>>, StatusOK, Garbage),
     HttpResponse(StatusOK, Garbage),
     HttpResponse(StatusInternalServerError, Garbage),
     HttpResponse(StatusOK, CompletionBody(<< >>)),
     HttpResponse(StatusOK, CompletionBody(<<NilChoice>>)),
     HttpResponse(StatusTooManyRequests, Body(TRUE, "", "slow down", "", << >>)),
     HttpResponse(StatusBadRequest,
                  Body(TRUE, "insufficient_quota", "no quota", "quota", << >>)),
     HttpResponse(StatusInternalServerError,
                  CompletionBody(<<Choice(Message(MessageRoleAssistant, <<"oops">>,
                                                  << >>, ""))>>)),
     HttpResponse(StatusOK,
                  CompletionBody(<<Choice(Message(MessageRoleAssistant, <<"thinking">>,
                                                  ToolCallsOf(<<"echo">>), ""))>>)),
     HttpResponse(StatusOK,
                  CompletionBody(<<Choice(Message(MessageRoleAssistant, <<"first">>,
                                                  << >>, "")),
                                   Choice(Message(MessageRoleAssistant, <<"second">>,
                                                  ToolCallsOf(<<"echo">>), ""))>>))}
    \cup {HttpResponse(StatusOK, CompletionBody(<<Choice(m)>>)) : m \in AssistantMessages}

\* ------------------------------------------------------------- getCompletion
Outcome(c, err, panic, sent) ==
    [payload |-> c, err |-> err, panic |-> panic, sent |-> sent]

\* fmt.Errorf with %v in place of %w: the text is kept, the cause is not.
doErrorNoWrap(doErr) == fmtErrorf("error making request", << >>)

\* client.go:149-151: the error getCompletion returns when o.client.Do fails.
doError(doErr) == fmtErrorf("error making request", doErr)

\* getCompletion with the status looked at only after the message is appended.
getCompletionStatusLast(v, requestOk, c, r) ==
    IF ~requestOk \/ r.doErr # << >> \/ r.readErr # << >> \/ ~r.body.json
    THEN Outcome(c, <<fmtErrorf("error", << >>)>>, FALSE, requestOk)
    ELSE IF Len(r.body.choices) = 0
    THEN Outcome(c, <<fmtErrorf("no choices returned", << >>)>>, FALSE, TRUE)
    ELSE IF r.body.choices[1].Message = << >>
    THEN Outcome(c, << >>, TRUE, TRUE)
    ELSE IF v = "part_003" /\ r.StatusCode # StatusOK
    THEN Outcome(AddMessages(c, r.body.choices[1].Message),
                 <<NewOpenAIError(r.StatusCode, r.body)>>, FALSE, TRUE)
    ELSE Outcome(AddMessages(c, r.body.choices[1].Message), << >>, FALSE, TRUE)

\* getCompletion appending the message of the last choice, not of the first.
getCompletionLastChoice(v, requestOk, c, r) ==
    IF ~requestOk \/ r.doErr # << >> \/ r.readErr # << >> \/ ~r.body.json
    THEN Outcome(c, <<fmtErrorf("error", << >>)>>, FALSE, requestOk)
    ELSE IF v = "part_003" /\ r.StatusCode # StatusOK
    THEN Outcome(c, <<NewOpenAIError(r.StatusCode, r.body)>>, FALSE, TRUE)
    ELSE IF Len(r.body.choices) = 0
    THEN Outcome(c, <<fmtErrorf("no choices returned", << >>)>>, FALSE, TRUE)
    ELSE IF Last(r.body.choices).Message = << >>
    THEN Outcome(c, << >>, TRUE, TRUE)
    ELSE Outcome(AddMessages(c, Last(r.body.choices).Message), << >>, FALSE, TRUE)

\* getCompletion appending the message of every choice, not of the first alone.
getCompletionAllChoices(v, requestOk, c, r) ==
    IF ~requestOk \/ r.doErr # << >> \/ r.readErr # << >> \/ ~r.body.json
    THEN Outcome(c, <<fmtErrorf("error", << >>)>>, FALSE, requestOk)
    ELSE IF v = "part_003" /\ r.StatusCode # StatusOK
    THEN Outcome(c, <<NewOpenAIError(r.StatusCode, r.body)>>, FALSE, TRUE)
    ELSE IF Len(r.body.choices) = 0
    THEN Outcome(c, <<fmtErrorf("no choices returned", << >>)>>, FALSE, TRUE)
    ELSE IF \E i \in DOMAIN r.body.choices : r.body.choices[i].Message = << >>
    THEN Outcome(c, << >>, TRUE, TRUE)
    ELSE Outcome(AddMessages(c, [i \in DOMAIN r.body.choices |->
                                    r.body.choices[i].Message[1]]), << >>, FALSE, TRUE)

\* client.go getCompletion (version "client.go") and its variant with the
\* status check (version "part_003"). requestOk says whether
\* createAuthorizedRequest can marshal the payload and build the request.
getCompletion(v, requestOk, c, r) ==
    IF ~requestOk
    THEN Outcome(c, <<fmtErrorf("error creating authorized request",
                                <<fmtErrorf("error marshaling request body",
                                            <<MarshalError>>)>>)>>, FALSE, FALSE)
    ELSE IF r.doErr # << >>
    THEN Outcome(c, <<doError(r.doErr)>>, FALSE, TRUE)
    ELSE IF r.readErr # << >>
    THEN Outcome(c, <<fmtErrorf("error reading response body", r.readErr)>>, FALSE, TRUE)
    ELSE IF v = "part_003" /\ r.StatusCode # StatusOK
    THEN Outcome(c, <<NewOpenAIError(r.StatusCode, r.body)>>, FALSE, TRUE)
    ELSE IF ~r.body.json
    THEN Outcome(c, <<fmtErrorf("error unmarshaling response body", <<DecodeError>>)>>,
                 FALSE, TRUE)
    ELSE IF Len(r.body.choices) = 0
    THEN Outcome(c, <<IF v = "part_003"
                      THEN NewInvalidRequestError("no choices returned")
                      ELSE fmtErrorf("no choices returned", << >>)>>, FALSE, TRUE)
    ELSE IF r.body.choices[1].Message = << >>
    THEN Outcome(c, << >>, TRUE, TRUE)
    ELSE Outcome(AddMessages(c, r.body.choices[1].Message), << >>, FALSE, TRUE)

\* unnamed/part_002 openAiRequest: no look at the status and none at the number
\* of choices; Choices[0] of an empty list is an index out of range.
openAiRequest(requestOk, c, r) ==
    IF ~requestOk
    THEN Outcome(c, <<fmtErrorf("error marshaling request payload", <<MarshalError>>)>>,
                 FALSE, FALSE)
    ELSE IF r.doErr # << >>
    THEN Outcome(c, <<fmtErrorf("error making request", r.doErr)>>, FALSE, TRUE)
    ELSE IF r.readErr # << >>
    THEN Outcome(c, <<fmtErrorf("error reading response body", r.readErr)>>, FALSE, TRUE)
    ELSE IF ~r.body.json
    THEN Outcome(c, <<fmtErrorf("error unmarshaling response body", <<DecodeError>>)>>,
                 FALSE, TRUE)
    ELSE IF Len(r.body.choices) = 0
    THEN Outcome(c, << >>, TRUE, TRUE)
    ELSE IF r.body.choices[1].Message = << >>
    THEN Outcome(c, << >>, TRUE, TRUE)
    ELSE Outcome([c EXCEPT !.Messages = @ \o r.body.choices[1].Message], << >>,
                 FALSE, TRUE)

\* ------------------------------------------------------------- handleToolCalls
Dispatched(c, panic, called) == [payload |-> c, panic |-> panic, called |-> called]

ToolMessage(content, toolCallId) == Message(MessageRoleTool, content, << >>, toolCallId)

\* handleToolCall without the toolFound check: the missing tool is called.
handleToolCallNoSkip(c, toolCall) ==
    LET fnName == toolCall.Function.Name
        tm == toolsMap(c)
    IN IF tm.panic \/ fnName \notin DOMAIN tm.map THEN Dispatched(c, TRUE, << >>)
       ELSE Dispatched(AddMessages(c, <<ToolMessage(Call(tm.map[fnName].Fn,
                                                         toolCall.Function.Arguments),
                                                    toolCall.Id)>>), FALSE, << >>)

\* handleToolCall that appends its result message twice.
handleToolCallTwice(c, toolCall) ==
    LET fnName == toolCall.Function.Name
        tm == toolsMap(c)
    IN IF tm.panic \/ fnName \notin DOMAIN tm.map THEN Dispatched(c, FALSE, << >>)
       ELSE LET m == ToolMessage(Call(tm.map[fnName].Fn, toolCall.Function.Arguments),
                                 toolCall.Id)
            IN Dispatched(AddMessages(c, <<m, m>>), FALSE, << >>)

\* handleToolCall that echoes the function name in place of the call id.
handleToolCallNameAsId(c, toolCall) ==
    LET fnName == toolCall.Function.Name
        tm == toolsMap(c)
    IN IF tm.panic \/ fnName \notin DOMAIN tm.map THEN Dispatched(c, FALSE, << >>)
       ELSE Dispatched(AddMessages(c, <<ToolMessage(Call(tm.map[fnName].Fn,
                                                         toolCall.Function.Arguments),
                                                    fnName)>>), FALSE, << >>)

\* handleToolCall that calls the callable twice and keeps the second result.
handleToolCallInvokesTwice(c, toolCall) ==
    LET fnName == toolCall.Function.Name
        tm == toolsMap(c)
    IN IF tm.panic \/ fnName \notin DOMAIN tm.map THEN Dispatched(c, FALSE, << >>)
       ELSE LET called == [Name |-> fnName, Fn |-> tm.map[fnName].Fn,
                           Arguments |-> toolCall.Function.Arguments,
                           Id |-> toolCall.Id]
            IN Dispatched(AddMessages(c, <<ToolMessage(Call(tm.map[fnName].Fn,
                                                            toolCall.Function.Arguments),
                                                       toolCall.Id)>>),
                          FALSE, <<called, called>>)

\* client.go handleToolCalls, the body of its loop for one toolCall: called is
\* the invocation of tool.Fn it made, if any.
handleToolCall(c, toolCall) ==
    LET fnName == toolCall.Function.Name
        arguments == toolCall.Function.Arguments
        tm == toolsMap(c)
    IN IF tm.panic THEN Dispatched(c, TRUE, << >>)
       ELSE IF fnName \notin DOMAIN tm.map THEN Dispatched(c, FALSE, << >>)
       ELSE LET tool == tm.map[fnName]
            IN IF tool.Fn = "nil" THEN Dispatched(c, TRUE, << >>)
               ELSE Dispatched(
                        AddMessages(c, <<ToolMessage(Call(tool.Fn, arguments),
                                                     toolCall.Id)>>),
                        FALSE,
                        <<[Name |-> fnName, Fn |-> tool.Fn, Arguments |-> arguments,
                           Id |-> toolCall.Id]>>)

\* unnamed/part_002 handleToolCalls, the body of its loop for one toolCall: the
\* result is appended to payload.Messages alone.
handleToolCall002(c, toolCall) ==
    LET fnName == toolCall.Function.Name
        arguments == toolCall.Function.Arguments
        tm == toolsMap(c)
    IN IF tm.panic THEN Dispatched(c, TRUE, << >>)
       ELSE IF fnName \notin DOMAIN tm.map THEN Dispatched(c, FALSE, << >>)
       ELSE LET tool == tm.map[fnName]
            IN IF tool.Fn = "nil" THEN Dispatched(c, TRUE, << >>)
               ELSE Dispatched(
                        [c EXCEPT !.Messages =
                             Append(@, ToolMessage(Call(tool.Fn, arguments),
                                                   toolCall.Id))],
                        FALSE,
                        <<[Name |-> fnName, Fn |-> tool.Fn, Arguments |-> arguments,
                           Id |-> toolCall.Id]>>)

\* The error performReActLoop returns when the loop runs out.
BudgetError(v) ==
    IF v = "part_003"
    THEN NewInvalidRequestError("reached max iterations without finalizing an answer")
    ELSE fmtErrorf("reached max iterations without finalizing an answer", << >>)

\* ------------------------------------------------------------- state
VARIABLES
    version,        \* the build that runs
    maxIterations,  \* performReActLoop's parameter
    requestOk,      \* createAuthorizedRequest succeeds for this client and payload
    payload,        \* *CompletionRequestPayload: Messages, NewMessages, Tools
    pc,             \* where performReActLoop is
    iter,           \* iterations of "for range maxIterations" started
    message,        \* handleToolCalls' local copy of the last message (nil outside)
    tcIdx,          \* handleToolCalls' position in message.ToolCalls
    result,         \* the *Message performReActLoop returned (nil: << >>)
    err,            \* the error performReActLoop returned (nil: << >>)
    callCount,      \* calls of o.client.Do so far
    requests,       \* the message list of each request body sent, in order
    responses,      \* what o.client.Do gave, in order
    invoked,        \* the tool callables invoked, in order
    env,            \* the process environment os.Getenv reads
    call,           \* SpecErrors: the function of errors.go called, with its arguments
    ret             \* SpecErrors: what that call returned (<< >> before it returns)

vars == <<version, maxIterations, requestOk, payload, pc, iter, message, tcIdx,
          result, err, callCount, requests, responses, invoked, env, call, ret>>

\* What no step of performReActLoop writes.
run == <<version, maxIterations, requestOk, env, call, ret>>

\* os.Getenv.
Getenv(name) == IF name \in DOMAIN env THEN env[name] ELSE ""

InitialMessages ==
    {<<Message(MessageRoleUser, <<"Hi">>, << >>, "")>>,
     <<Message(MessageRoleSystem, <<"You are a pirate">>, << >>, ""),
       Message(MessageRoleUser, <<"Hi">>, << >>, "")>>}

\* The tool lists a payload is built with: every definition has a name and a
\* bound callable; the third list registers "echo" twice.
ToolLists ==
    {<< >>,
     <<NewToolDefinition("echo", "echoFn")>>,
     <<NewToolDefinition("echo", "echoFn"), NewToolDefinition("add", "addFn"),
       NewToolDefinition("echo", "echo2Fn")>>}

\* Nothing of a run has happened yet.
Fresh ==
    /\ iter = 0
    /\ message = << >>
    /\ tcIdx = 0
    /\ result = << >>
    /\ err = << >>
    /\ callCount = 0
    /\ requests = << >>
    /\ responses = << >>
    /\ invoked = << >>

\* No function of errors.go is called.
NoCall == call = << >> /\ ret = << >>

\* performReActLoop is entered (client.go:86) with a payload whose model is set.
Init ==
    /\ version \in Versions
    /\ maxIterations \in 1..MaxIter
    /\ requestOk \in BOOLEAN
    /\ payload \in [Model : {"gpt-4"}, Messages : InitialMessages,
                     NewMessages : {<< >>}, Tools : ToolLists]
    /\ pc = "Requesting"
    /\ Fresh
    /\ env = [name \in {"OPENAI_MODEL"} |-> ""]
    /\ NoCall

\* performReActLoop of the oldest build is entered (unnamed/part_002:87); its
\* payload has no NewMessages.
InitLegacy ==
    /\ version \in LegacyVersions
    /\ maxIterations \in 1..MaxIter
    /\ requestOk \in BOOLEAN
    /\ payload \in [Model : {"gpt-4"}, Messages : InitialMessages, Tools : ToolLists]
    /\ pc = "Requesting"
    /\ Fresh
    /\ env = [name \in {"OPENAI_MODEL"} |-> ""]
    /\ NoCall

\* One iteration's call of getCompletion (client.go:88-90), of openAiRequest in
\* the oldest build.
Request ==
    /\ pc = "Requesting"
    /\ \E r \in Responses :
          LET out == IF version \in LegacyVersions
                     THEN openAiRequest(requestOk, payload, r)
                     ELSE getCompletion(version, requestOk, payload, r)
          IN /\ payload' = out.payload
             /\ err' = out.err
             /\ pc' = IF out.panic THEN "Panicked"
                      ELSE IF out.err # << >> THEN "Failed"
                      ELSE "Inspecting"
             /\ callCount' = IF out.sent THEN callCount + 1 ELSE callCount
             /\ requests' = IF out.sent THEN Append(requests, payload.Messages)
                            ELSE requests
             /\ responses' = IF out.sent THEN Append(responses, r) ELSE responses
    /\ iter' = iter + 1
    /\ UNCHANGED <<run, message, tcIdx, result, invoked>>

\* Inspect with the answer recognised by its content, not by its tool calls.
InspectByContent ==
    /\ pc = "Inspecting"
    /\ LET responseBody == Last(payload.Messages)
       IN IF responseBody.Content # << >>
          THEN /\ result' = <<responseBody>>
               /\ pc' = "Terminal"
               /\ UNCHANGED <<message, tcIdx>>
          ELSE /\ message' = <<Last(payload.Messages)>>
               /\ tcIdx' = 1
               /\ pc' = "Dispatching"
               /\ UNCHANGED result
    /\ UNCHANGED <<run, payload, iter, err, callCount, requests, responses, invoked>>

\* Inspect that takes a message without tool calls for the answer only when it
\* has content.
InspectSkipsEmpty ==
    /\ pc = "Inspecting"
    /\ LET responseBody == Last(payload.Messages)
       IN IF Len(responseBody.ToolCalls) = 0 /\ responseBody.Content # << >>
          THEN /\ result' = <<responseBody>>
               /\ pc' = "Terminal"
               /\ UNCHANGED <<message, tcIdx>>
          ELSE /\ message' = <<Last(payload.Messages)>>
               /\ tcIdx' = 1
               /\ pc' = "Dispatching"
               /\ UNCHANGED result
    /\ UNCHANGED <<run, payload, iter, err, callCount, requests, responses, invoked>>

\* The look at the last message (client.go:92-101) and, when it carries tool
\* calls, the entry of handleToolCalls (client.go:111-114). The oldest build
\* returns the Content of the message that result holds.
Inspect ==
    /\ pc = "Inspecting"
    /\ LET responseBody == Last(payload.Messages)
       IN IF Len(responseBody.ToolCalls) = 0
          THEN /\ result' = <<responseBody>>
               /\ pc' = "Terminal"
               /\ UNCHANGED <<message, tcIdx>>
          ELSE /\ message' = <<Last(payload.Messages)>>
               /\ tcIdx' = 1
               /\ pc' = "Dispatching"
               /\ UNCHANGED result
    /\ UNCHANGED <<run, payload, iter, err, callCount, requests, responses, invoked>>

\* Dispatch ranging over message.ToolCalls from its last element to its first.
DispatchReversed ==
    /\ pc = "Dispatching"
    /\ tcIdx <= Len(message[1].ToolCalls)
    /\ LET n == Len(message[1].ToolCalls)
           out == handleToolCall(payload, message[1].ToolCalls[n + 1 - tcIdx])
       IN /\ payload' = out.payload
          /\ invoked' = invoked \o out.called
          /\ pc' = IF out.panic THEN "Panicked" ELSE "Dispatching"
          /\ tcIdx' = IF out.panic THEN tcIdx ELSE tcIdx + 1
    /\ UNCHANGED <<run, iter, message, result, err, callCount, requests, responses>>

\* Dispatch where a tool call without a registered tool is an error of
\* handleToolCalls, which the loop wraps and returns.
DispatchFailsOnMissing ==
    /\ pc = "Dispatching"
    /\ tcIdx <= Len(message[1].ToolCalls)
    /\ IF message[1].ToolCalls[tcIdx].Function.Name \notin DOMAIN toolsMap(payload).map
       THEN /\ pc' = "Failed"
            /\ err' = <<fmtErrorf("error handling tool calls",
                                  <<leafError("errors", "tool not found")>>)>>
            /\ UNCHANGED <<payload, invoked, tcIdx>>
       ELSE LET out == handleToolCall(payload, message[1].ToolCalls[tcIdx])
            IN /\ payload' = out.payload
               /\ invoked' = invoked \o out.called
               /\ pc' = "Dispatching"
               /\ tcIdx' = tcIdx + 1
               /\ UNCHANGED err
    /\ UNCHANGED <<run, iter, message, result, callCount, requests, responses>>

\* One pass of handleToolCalls' loop (client.go:116-134).
Dispatch ==
    /\ pc = "Dispatching"
    /\ tcIdx <= Len(message[1].ToolCalls)
    /\ LET out == IF version \in LegacyVersions
                  THEN handleToolCall002(payload, message[1].ToolCalls[tcIdx])
                  ELSE handleToolCall(payload, message[1].ToolCalls[tcIdx])
       IN /\ payload' = out.payload
          /\ invoked' = invoked \o out.called
          /\ pc' = IF out.panic THEN "Panicked" ELSE "Dispatching"
          /\ tcIdx' = IF out.panic THEN tcIdx ELSE tcIdx + 1
    /\ UNCHANGED <<run, iter, message, result, err, callCount, requests, responses>>

\* DispatchDone that leaves handleToolCalls after the first tool call.
DispatchDoneEarly ==
    /\ pc = "Dispatching"
    /\ tcIdx > 1
    /\ message' = << >>
    /\ tcIdx' = 0
    /\ IF iter < maxIterations
       THEN pc' = "Requesting" /\ UNCHANGED err
       ELSE pc' = "BudgetExceeded" /\ err' = <<BudgetError(version)>>
    /\ UNCHANGED <<run, payload, iter, result, callCount, requests, responses, invoked>>

\* DispatchDone that, when the loop runs out, takes the messages of the last
\* iteration back.
DispatchDoneRollsBack ==
    /\ pc = "Dispatching"
    /\ tcIdx > Len(message[1].ToolCalls)
    /\ message' = << >>
    /\ tcIdx' = 0
    /\ IF iter < maxIterations
       THEN pc' = "Requesting" /\ UNCHANGED <<err, payload>>
       ELSE /\ pc' = "BudgetExceeded"
            /\ err' = <<BudgetError(version)>>
            /\ payload' = [payload EXCEPT !.Messages = requests[Len(requests)]]
    /\ UNCHANGED <<run, iter, result, callCount, requests, responses, invoked>>

\* DispatchDone with one iteration too many.
DispatchDoneOneMore ==
    /\ pc = "Dispatching"
    /\ tcIdx > Len(message[1].ToolCalls)
    /\ message' = << >>
    /\ tcIdx' = 0
    /\ IF iter <= maxIterations
       THEN pc' = "Requesting" /\ UNCHANGED err
       ELSE pc' = "BudgetExceeded" /\ err' = <<BudgetError(version)>>
    /\ UNCHANGED <<run, payload, iter, result, callCount, requests, responses, invoked>>

\* handleToolCalls returns nil (client.go:135) and the loop goes to its next
\* iteration or runs out (client.go:87, 108).
DispatchDone ==
    /\ pc = "Dispatching"
    /\ tcIdx > Len(message[1].ToolCalls)
    /\ message' = << >>
    /\ tcIdx' = 0
    /\ IF iter < maxIterations
       THEN pc' = "Requesting" /\ UNCHANGED err
       ELSE pc' = "BudgetExceeded" /\ err' = <<BudgetError(version)>>
    /\ UNCHANGED <<run, payload, iter, result, callCount, requests, responses, invoked>>

Next == Request \/ Inspect \/ Dispatch \/ DispatchDone

Spec == Init /\ [][Next]_vars

\* The loop when every call of o.client.Do and of a tool callable returns: a
\* step that can be taken is taken.
SpecLive == Spec /\ WF_vars(Next)

\* The loop of the oldest build.
SpecLegacy == InitLegacy /\ [][Next]_vars

\* ------------------------------------------------------------- GetCompletion
\* The model GetCompletion leaves in the payload (client.go:48-50,
\* unnamed/part_003:54-59): only the build of part_003 falls back to
\* "gpt-4o-mini".
ResolveModel(v, model) ==
    IF model # "" THEN model
    ELSE IF v = "part_003" /\ Getenv("OPENAI_MODEL") = "" THEN "gpt-4o-mini"
    ELSE Getenv("OPENAI_MODEL")

\* GetCompletion is about to be called: the payload's model and OPENAI_MODEL
\* are each set or not.
InitModel ==
    /\ version \in Versions
    /\ maxIterations \in 1..MaxIter
    /\ requestOk \in BOOLEAN
    /\ payload \in [Model : {"", "gpt-4"}, Messages : InitialMessages,
                     NewMessages : {<< >>}, Tools : ToolLists]
    /\ pc = "Entry"
    /\ Fresh
    /\ env \in [{"OPENAI_MODEL"} -> {"", "gpt-3.5-turbo"}]
    /\ NoCall

\* GetCompletion up to its call of performReActLoop (client.go:47-51).
GetCompletion ==
    /\ pc = "Entry"
    /\ payload' = [payload EXCEPT !.Model = ResolveModel(version, @)]
    /\ pc' = "Requesting"
    /\ UNCHANGED <<run, iter, message, tcIdx, result, err, callCount, requests,
                   responses, invoked>>

NextModel == GetCompletion \/ Next

SpecModel == InitModel /\ [][NextModel]_vars

\* ------------------------------------------------------------- errors.go
\* What performReActLoop reads and writes.
loop == <<payload, pc, iter, message, tcIdx, result, err, callCount, requests,
          responses, invoked>>

\* The status codes and the bodies NewOpenAIError is called with: the statuses
\* of its switch and two others; bodies that do not decode, and bodies that
\* decode with or without a type, a message and a code.
StatusCodes ==
    {StatusOK, StatusBadRequest, StatusUnauthorized, StatusNotFound,
     StatusTooManyRequests, StatusInternalServerError, StatusServiceUnavailable}

ErrorBodies ==
    {Garbage} \cup
    {Body(TRUE, type, text, code, << >>) :
        type \in {"", "insufficient_quota", ErrTypeRateLimit},
        text \in {"", "Something went wrong"},
        code \in {"", "invalid_api_key"}}

Constructors ==
    {"NewInvalidRequestError", "NewAuthenticationError", "NewRateLimitError",
     "NewServiceUnavailableError", "NewNotFoundError"}

Construct(fn, text) ==
    CASE fn = "NewInvalidRequestError" -> NewInvalidRequestError(text)
      [] fn = "NewAuthenticationError" -> NewAuthenticationError(text)
      [] fn = "NewRateLimitError" -> NewRateLimitError(text)
      [] fn = "NewServiceUnavailableError" -> NewServiceUnavailableError(text)
      [] fn = "NewNotFoundError" -> NewNotFoundError(text)

\* The error values IsOpenAIError and GetOpenAIErrorType are called with: nil,
\* errors that are no OpenAIError, OpenAIError values, and fmt.Errorf("%w")
\* errors around each.
ErrorValues ==
    LET plain == leafError("errors", "test error")
        typed == {OpenAIError(ErrTypeInvalidRequest, "test", ""),
                  OpenAIError(ErrTypeRateLimit, "slow down", "rate"),
                  OpenAIError("", "test", "")}
    IN {<< >>, <<plain>>, <<fmtErrorf("context", <<plain>>)>>}
       \cup {<<e>> : e \in typed}
       \cup {<<fmtErrorf("context", <<e>>)>> : e \in typed}

Calls ==
    {[fn |-> "NewOpenAIError", statusCode |-> statusCode, body |-> body] :
        statusCode \in StatusCodes, body \in ErrorBodies}
    \cup {[fn |-> fn, message |-> text] :
             fn \in Constructors, text \in {"", "Invalid request"}}
    \cup {[fn |-> fn, err |-> e] :
             fn \in {"IsOpenAIError", "GetOpenAIErrorType"}, e \in ErrorValues}

\* A function of errors.go is called; no run of the loop is under way.
InitErrors ==
    /\ version = "client.go"
    /\ maxIterations = 1
    /\ requestOk = TRUE
    /\ payload = [Model |-> "gpt-4", Messages |-> << >>, NewMessages |-> << >>,
                  Tools |-> << >>]
    /\ pc = "Idle"
    /\ Fresh
    /\ env = [name \in {"OPENAI_MODEL"} |-> ""]
    /\ call \in {<<c>> : c \in Calls}
    /\ ret = << >>

Called(fn) == call # << >> /\ call[1].fn = fn

CallNewOpenAIError ==
    /\ Called("NewOpenAIError")
    /\ ret = << >>
    /\ ret' = <<NewOpenAIError(call[1].statusCode, call[1].body)>>
    /\ UNCHANGED <<version, maxIterations, requestOk, env, call, loop>>

CallConstructor ==
    /\ call # << >>
    /\ call[1].fn \in Constructors
    /\ ret = << >>
    /\ ret' = <<Construct(call[1].fn, call[1].message)>>
    /\ UNCHANGED <<version, maxIterations, requestOk, env, call, loop>>

CallIsOpenAIError ==
    /\ Called("IsOpenAIError")
    /\ ret = << >>
    /\ ret' = <<IsOpenAIError(call[1].err)>>
    /\ UNCHANGED <<version, maxIterations, requestOk, env, call, loop>>

CallGetOpenAIErrorType ==
    /\ Called("GetOpenAIErrorType")
    /\ ret = << >>
    /\ ret' = <<GetOpenAIErrorType(call[1].err)>>
    /\ UNCHANGED <<version, maxIterations, requestOk, env, call, loop>>

NextErrors ==
    CallNewOpenAIError \/ CallConstructor \/ CallIsOpenAIError
        \/ CallGetOpenAIErrorType

SpecErrors == InitErrors /\ [][NextErrors]_vars

\* ------------------------------------------------------------- construction
\* The OpenAI struct without its transport.
OpenAI(baseUrl, key) == [baseUrl |-> baseUrl, key |-> key, MaxIterations |-> 5]

\* What a constructor returns: a client or nil, an error or nil.
Built(o, e) == [client |-> o, err |-> e]

\* client.go NewOpenAI: the environment fills what the arguments leave empty.
NewOpenAI(baseUrl, apiKey) ==
    Built(<<OpenAI(IF baseUrl = "" THEN Getenv("OPENAI_BASE_URL") ELSE baseUrl,
                   IF apiKey = "" THEN Getenv("OPENAI_API_KEY") ELSE apiKey)>>,
          << >>)

\* unnamed/part_003 New: the default base URL, and no client without a key.
New(baseUrl, apiKey) ==
    LET url == IF baseUrl # "" THEN baseUrl
               ELSE IF Getenv("OPENAI_BASE_URL") # "" THEN Getenv("OPENAI_BASE_URL")
               ELSE "https://api.openai.com"
        key == IF apiKey # "" THEN apiKey ELSE Getenv("OPENAI_API_KEY")
    IN IF key = ""
       THEN Built(<< >>, <<NewAuthenticationError("OPENAI_API_KEY is not set")>>)
       ELSE Built(<<OpenAI(url, key)>>, << >>)

\* ------------------------------------------------------------- GetEmbedding
\* An embeddings response body as the decoders see it: data is what
\* GetEmbeddingResponse decodes from it.
EmbeddingBody(json, type, text, code, data) ==
    [json |-> json, type |-> type, message |-> text, code |-> code, data |-> data]

\* schemas.go EmbeddingObject; the numbers stand for the floats.
EmbeddingObject(embedding) == [Object |-> "embedding", Embedding |-> embedding]

EmbeddingData(data) == EmbeddingBody(TRUE, "", "", "", data)

EmbeddingGarbage == EmbeddingBody(FALSE, "", "", "", << >>)

EmbeddingResponses ==
    {Response(<<TransportError>>, << >>, 0, EmbeddingGarbage),
     Response(<< >>, <<ReadError>>, StatusOK, EmbeddingGarbage),
     HttpResponse(StatusOK, EmbeddingGarbage),
     HttpResponse(StatusOK, EmbeddingData(<< >>)),
     HttpResponse(StatusOK, EmbeddingData(<<EmbeddingObject(<<1, 2, 3>>)>>)),
     HttpResponse(StatusOK, EmbeddingData(<<EmbeddingObject(<<4, 5>>),
                                            EmbeddingObject(<<6>>)>>)),
     HttpResponse(StatusUnauthorized,
                  EmbeddingBody(TRUE, "", "Incorrect API key", "invalid_api_key",
                                << >>)),
     HttpResponse(StatusInternalServerError, EmbeddingGarbage),
     HttpResponse(StatusInternalServerError,
                  EmbeddingData(<<EmbeddingObject(<<7>>)>>))}

\* What GetEmbedding gives: the embedding or nil, the error or nil, whether it
\* panicked, whether o.client.Do was called.
Embedded(embedding, e, panic, sent) ==
    [embedding |-> embedding, err |-> e, panic |-> panic, sent |-> sent]

\* client.go GetEmbedding (version "client.go": the decoder reads the body, no
\* look at the status) and unnamed/part_003 GetEmbedding. Data[0] of an empty
\* list is an index out of range in both.
GetEmbedding(v, ok, r) ==
    IF ~ok
    THEN Embedded(<< >>, <<fmtErrorf("error creating authorized request",
                                     <<fmtErrorf("error creating request",
                                                 <<leafError("url", "invalid URL")>>)>>)>>,
                  FALSE, FALSE)
    ELSE IF r.doErr # << >>
    THEN Embedded(<< >>, <<fmtErrorf("error making request", r.doErr)>>, FALSE, TRUE)
    ELSE IF r.readErr # << >>
    THEN Embedded(<< >>, <<fmtErrorf(IF v = "part_003"
                                     THEN "error reading response body"
                                     ELSE "error unmarshaling response body",
                                     r.readErr)>>, FALSE, TRUE)
    ELSE IF v = "part_003" /\ r.StatusCode # StatusOK
    THEN Embedded(<< >>, <<NewOpenAIError(r.StatusCode, r.body)>>, FALSE, TRUE)
    ELSE IF ~r.body.json
    THEN Embedded(<< >>, <<fmtErrorf("error unmarshaling response body",
                                     <<DecodeError>>)>>, FALSE, TRUE)
    ELSE IF Len(r.body.data) = 0
    THEN Embedded(<< >>, << >>, TRUE, TRUE)
    ELSE Embedded(<<r.body.data[1].Embedding>>, << >>, FALSE, TRUE)

\* A constructor is called with a base URL and a key, each given or not, in an
\* environment where OPENAI_BASE_URL and OPENAI_API_KEY are each set or not.
InitClient ==
    /\ version \in Versions
    /\ maxIterations = 1
    /\ requestOk \in BOOLEAN
    /\ payload = [Model |-> "gpt-4", Messages |-> << >>, NewMessages |-> << >>,
                  Tools |-> << >>]
    /\ pc = "Idle"
    /\ Fresh
    /\ env \in [OPENAI_BASE_URL : {"", "http://env-url.com"},
                 OPENAI_API_KEY : {"", "env-key"},
                 OPENAI_MODEL : {""}]
    /\ call \in {<<[fn |-> "New", baseUrl |-> baseUrl, apiKey |-> apiKey]>> :
                    baseUrl \in {"", "http://example.com"},
                    apiKey \in {"", "test-key"}}
    /\ ret = << >>

\* NewOpenAI (client.go:28-41) or New (unnamed/part_003:28-47) runs.
CallNew ==
    /\ Called("New")
    /\ ret = << >>
    /\ ret' = <<IF version = "part_003" THEN New(call[1].baseUrl, call[1].apiKey)
                ELSE NewOpenAI(call[1].baseUrl, call[1].apiKey)>>
    /\ UNCHANGED <<version, maxIterations, requestOk, env, call, loop>>

\* GetEmbedding runs on the client that was built; the request it sends is
\* logged with the URL and the bearer it was built with.
CallGetEmbedding ==
    /\ Called("New")
    /\ ret # << >>
    /\ ret[1].client # << >>
    /\ \E r \in EmbeddingResponses :
          LET o == ret[1].client[1]
              out == GetEmbedding(version, requestOk, r)
          IN /\ call' = <<[fn |-> "GetEmbedding", o |-> o]>>
             /\ ret' = <<out>>
             /\ callCount' = IF out.sent THEN callCount + 1 ELSE callCount
             /\ requests' = IF out.sent
                            THEN Append(requests,
                                        [url |-> <<o.baseUrl, "/v1/embeddings">>,
                                         bearer |-> o.key])
                            ELSE requests
             /\ responses' = IF out.sent THEN Append(responses, r) ELSE responses
    /\ UNCHANGED <<version, maxIterations, requestOk, env, payload, pc, iter,
                   message, tcIdx, result, err, invoked>>

NextClient == CallNew \/ CallGetEmbedding

SpecClient == InitClient /\ [][NextClient]_vars

\* ------------------------------------------------------------- two calls
\* Two goroutines call GetCompletion on one client, each with a payload of its
\* own. In this specification every variable of the loop holds one value per
\* caller, and call holds the client both callers share.
Callers == {1, 2}

\* The client the two calls share (client.go:21-26), MaxIterations being what
\* GetCompletion hands to performReActLoop (client.go:51).
SharedClient ==
    [OpenAI("https://api.openai.com/v1", "test-key") EXCEPT
        !.MaxIterations = maxIterations]

\* The payloads of the two callers: they differ in model, messages and tools,
\* and share no slice.
PairPayloads ==
    <<[Model |-> "", Messages |-> <<Message(MessageRoleUser, <<"Hi">>, << >>, "")>>,
       NewMessages |-> << >>,
       Tools |-> <<NewToolDefinition("echo", "echoFn")>>],
      [Model |-> "gpt-4",
       Messages |-> <<Message(MessageRoleSystem, <<"You are a pirate">>, << >>, ""),
                      Message(MessageRoleUser, <<"Bye">>, << >>, "")>>,
       NewMessages |-> << >>,
       Tools |-> <<NewToolDefinition("echo", "echo2Fn"),
                   NewToolDefinition("add", "addFn")>>]>>

\* What o.client.Do gives either caller: a transport error, a completion
\* without choices, an answer, and requests for a tool both payloads register
\* and for a tool neither registers.
PairResponses ==
    {Response(<<TransportError>>, << >>, 0, Garbage),
     HttpResponse(StatusOK, CompletionBody(<< >>)),
     HttpResponse(StatusOK,
                  CompletionBody(<<Choice(Message(MessageRoleAssistant, <<"done">>,
                                                  << >>, ""))>>)),
     HttpResponse(StatusOK,
                  CompletionBody(<<Choice(Message(MessageRoleAssistant, << >>,
                                                  ToolCallsOf(<<"echo">>), ""))>>)),
     HttpResponse(StatusOK,
                  CompletionBody(<<Choice(Message(MessageRoleAssistant, << >>,
                                                  ToolCallsOf(<<"nope", "echo">>),
                                                  ""))>>))}

\* Both callers are about to call GetCompletion on the client.
InitPair ==
    /\ version \in Versions
    /\ maxIterations \in 1..MaxIter
    /\ requestOk \in BOOLEAN
    /\ payload = PairPayloads
    /\ pc = [i \in Callers |-> "Entry"]
    /\ iter = [i \in Callers |-> 0]
    /\ message = [i \in Callers |-> << >>]
    /\ tcIdx = [i \in Callers |-> 0]
    /\ result = [i \in Callers |-> << >>]
    /\ err = [i \in Callers |-> << >>]
    /\ callCount = [i \in Callers |-> 0]
    /\ requests = [i \in Callers |-> << >>]
    /\ responses = [i \in Callers |-> << >>]
    /\ invoked = [i \in Callers |-> << >>]
    /\ env \in [{"OPENAI_MODEL"} -> {"", "gpt-3.5-turbo"}]
    /\ call = <<[fn |-> "GetCompletion", o |-> SharedClient]>>
    /\ ret = << >>

\* Caller i's GetCompletion up to its call of performReActLoop
\* (client.go:47-51).
GetCompletionOf(i) ==
    /\ pc[i] = "Entry"
    /\ payload' = [payload EXCEPT ![i].Model = ResolveModel(version, @)]
    /\ pc' = [pc EXCEPT ![i] = "Requesting"]
    /\ UNCHANGED <<run, iter, message, tcIdx, result, err, callCount, requests,
                   responses, invoked>>

\* Caller i's call of getCompletion in one iteration (client.go:88-90).
RequestOf(i) ==
    /\ pc[i] = "Requesting"
    /\ \E r \in PairResponses :
          LET out == getCompletion(version, requestOk, payload[i], r)
          IN /\ payload' = [payload EXCEPT ![i] = out.payload]
             /\ err' = [err EXCEPT ![i] = out.err]
             /\ pc' = [pc EXCEPT ![i] = IF out.panic THEN "Panicked"
                                        ELSE IF out.err # << >> THEN "Failed"
                                        ELSE "Inspecting"]
             /\ callCount' = [callCount EXCEPT ![i] = IF out.sent THEN @ + 1 ELSE @]
             /\ requests' = [requests EXCEPT ![i] =
                                IF out.sent THEN Append(@, payload[i].Messages)
                                ELSE @]
             /\ responses' = [responses EXCEPT ![i] =
                                 IF out.sent THEN Append(@, r) ELSE @]
    /\ iter' = [iter EXCEPT ![i] = @ + 1]
    /\ UNCHANGED <<run, message, tcIdx, result, invoked>>

\* Caller i's look at the last message of its payload (client.go:92-101) and
\* its entry of handleToolCalls (client.go:111-114).
InspectOf(i) ==
    /\ pc[i] = "Inspecting"
    /\ LET responseBody == Last(payload[i].Messages)
       IN IF Len(responseBody.ToolCalls) = 0
          THEN /\ result' = [result EXCEPT ![i] = <<responseBody>>]
               /\ pc' = [pc EXCEPT ![i] = "Terminal"]
               /\ UNCHANGED <<message, tcIdx>>
          ELSE /\ message' = [message EXCEPT ![i] = <<Last(payload[i].Messages)>>]
               /\ tcIdx' = [tcIdx EXCEPT ![i] = 1]
               /\ pc' = [pc EXCEPT ![i] = "Dispatching"]
               /\ UNCHANGED result
    /\ UNCHANGED <<run, payload, iter, err, callCount, requests, responses, invoked>>

\* DispatchOf as it would be if the conversation were a field of the client:
\* the tool's message is appended to the payload of every caller.
DispatchOfSharedConversation(i) ==
    /\ pc[i] = "Dispatching"
    /\ tcIdx[i] <= Len(message[i][1].ToolCalls)
    /\ LET out == handleToolCall(payload[i], message[i][1].ToolCalls[tcIdx[i]])
           added == SubSeq(out.payload.Messages, Len(payload[i].Messages) + 1,
                           Len(out.payload.Messages))
       IN /\ payload' = [j \in Callers |-> IF j = i THEN out.payload
                                            ELSE AddMessages(payload[j], added)]
          /\ invoked' = [invoked EXCEPT ![i] = @ \o out.called]
          /\ pc' = [pc EXCEPT ![i] = IF out.panic THEN "Panicked" ELSE "Dispatching"]
          /\ tcIdx' = [tcIdx EXCEPT ![i] = IF out.panic THEN @ ELSE @ + 1]
    /\ UNCHANGED <<run, iter, message, result, err, callCount, requests, responses>>

\* One pass of the loop of caller i's handleToolCalls (client.go:116-134).
DispatchOf(i) ==
    /\ pc[i] = "Dispatching"
    /\ tcIdx[i] <= Len(message[i][1].ToolCalls)
    /\ LET out == handleToolCall(payload[i], message[i][1].ToolCalls[tcIdx[i]])
       IN /\ payload' = [payload EXCEPT ![i] = out.payload]
          /\ invoked' = [invoked EXCEPT ![i] = @ \o out.called]
          /\ pc' = [pc EXCEPT ![i] = IF out.panic THEN "Panicked" ELSE "Dispatching"]
          /\ tcIdx' = [tcIdx EXCEPT ![i] = IF out.panic THEN @ ELSE @ + 1]
    /\ UNCHANGED <<run, iter, message, result, err, callCount, requests, responses>>

\* Caller i's handleToolCalls returns nil (client.go:135) and its loop goes to
\* the next iteration or runs out of the client's MaxIterations
\* (client.go:87, 108).
DispatchDoneOf(i) ==
    /\ pc[i] = "Dispatching"
    /\ tcIdx[i] > Len(message[i][1].ToolCalls)
    /\ message' = [message EXCEPT ![i] = << >>]
    /\ tcIdx' = [tcIdx EXCEPT ![i] = 0]
    /\ IF iter[i] < call[1].o.MaxIterations
       THEN pc' = [pc EXCEPT ![i] = "Requesting"] /\ UNCHANGED err
       ELSE /\ pc' = [pc EXCEPT ![i] = "BudgetExceeded"]
            /\ err' = [err EXCEPT ![i] = <<BudgetError(version)>>]
    /\ UNCHANGED <<run, payload, iter, result, callCount, requests, responses, invoked>>

\* The scheduler lets either goroutine take its next step.
PairGetCompletion == \E i \in Callers : GetCompletionOf(i)
PairRequest == \E i \in Callers : RequestOf(i)
PairInspect == \E i \in Callers : InspectOf(i)
PairDispatch == \E i \in Callers : DispatchOf(i)
PairDispatchDone == \E i \in Callers : DispatchDoneOf(i)

NextPair ==
    PairGetCompletion \/ PairRequest \/ PairInspect \/ PairDispatch
        \/ PairDispatchDone

SpecPair == InitPair /\ [][NextPair]_vars

\* ------------------------------------------------------------- vocabulary
\* The run is over: performReActLoop returned, or the goroutine panicked.
Finished == pc \in {"Terminal", "Failed", "BudgetExceeded", "Panicked"}

\* A response that is a successful completion with a message in its first
\* choice, and that message.
CarriesMessage(r) ==
    /\ r.doErr = << >>
    /\ r.readErr = << >>
    /\ r.StatusCode = StatusOK
    /\ r.body.json
    /\ Len(r.body.choices) > 0
    /\ r.body.choices[1].Message # << >>

ResponseMessage(r) == r.body.choices[1].Message[1]

CarriesToolCalls(r) == CarriesMessage(r) /\ Len(ResponseMessage(r).ToolCalls) > 0

NoToolCalls(r) == CarriesMessage(r) /\ Len(ResponseMessage(r).ToolCalls) = 0

\* The names payload.Tools registers, and the callable a name resolves to:
\* that of the last definition with the name.
RegisteredNames == {payload.Tools[i].Function[1].Name : i \in DOMAIN payload.Tools}

Registered(toolCall) == toolCall.Function.Name \in RegisteredNames

RegisteredFn(name) ==
    LET last == CHOOSE i \in DOMAIN payload.Tools :
                    /\ payload.Tools[i].Function[1].Name = name
                    /\ \A j \in DOMAIN payload.Tools :
                           payload.Tools[j].Function[1].Name = name => j <= i
    IN payload.Tools[last].Function[1].Fn

\* Iteration k's assistant message sits right after the messages request k
\* sent; the messages the dispatcher appended for it run from there to the
\* messages request k+1 sent, or to the end of the conversation.
HasAssistant(k) == k \in DOMAIN requests /\ Len(payload.Messages) > Len(requests[k])

Assistant(k) == payload.Messages[Len(requests[k]) + 1]

ResultsOf(k) ==
    SubSeq(payload.Messages, Len(requests[k]) + 2,
           IF k < Len(requests) THEN Len(requests[k + 1]) ELSE Len(payload.Messages))

\* The text of the error the loop returns when it runs out of iterations.
BudgetExceededText == "reached max iterations without finalizing an answer"

\* ------------------------------------------------------------- claims

\* C1: when the first transport response carries zero tool calls, the loop
\* returns that message, with a nil error, after exactly one transport call and
\* without invoking any tool callable.
C1_FirstAnswerReturned ==
    (responses # << >> /\ NoToolCalls(responses[1])) =>
        /\ callCount = 1
        /\ invoked = << >>
        /\ pc \in {"Inspecting", "Terminal"}
        /\ pc = "Terminal" =>
              result = <<ResponseMessage(responses[1])>> /\ err = << >>

C1_Witness ==
    /\ pc = "Terminal"
    /\ maxIterations > 1
    /\ NoToolCalls(responses[1])
    /\ result[1].Content = << >>

\* Responses 1..N carried tool calls and response N+1, the last one so far,
\* carried none.
AnsweredAfter(N) ==
    /\ Len(responses) = N + 1
    /\ \A i \in 1..N : CarriesToolCalls(responses[i])
    /\ NoToolCalls(responses[N + 1])

\* C2 as stated: N rounds of tool calls and then an answer take exactly N+1
\* transport calls, and every tool call of response N, registered or not, has
\* exactly one tool-result message with its id.
C2_Original ==
    \A N \in 1..(maxIterations - 1) :
        AnsweredAfter(N) =>
            /\ callCount = N + 1
            /\ \A i \in DOMAIN Assistant(N).ToolCalls :
                  Cardinality({j \in DOMAIN ResultsOf(N) :
                                  ResultsOf(N)[j].ToolCallId
                                      = Assistant(N).ToolCalls[i].Id}) = 1

\* C2 (amended): N rounds of tool calls and then an answer take exactly N+1
\* transport calls, and response N's tool calls have exactly one tool-result
\* message each when their name is registered and none when it is not; the
\* dispatcher appended nothing else for response N.
C2_OneResultPerRegisteredCall ==
    \A N \in 1..(maxIterations - 1) :
        AnsweredAfter(N) =>
            /\ callCount = N + 1
            /\ \A i \in DOMAIN Assistant(N).ToolCalls :
                  Cardinality({j \in DOMAIN ResultsOf(N) :
                                  ResultsOf(N)[j].ToolCallId
                                      = Assistant(N).ToolCalls[i].Id})
                      = IF Registered(Assistant(N).ToolCalls[i]) THEN 1 ELSE 0
            /\ Len(ResultsOf(N))
                  = Cardinality({i \in DOMAIN Assistant(N).ToolCalls :
                                    Registered(Assistant(N).ToolCalls[i])})

C2_Witness ==
    /\ pc = "Terminal"
    /\ AnsweredAfter(1)
    /\ Len(Assistant(1).ToolCalls) = 2
    /\ Len(ResultsOf(1)) = 1

\* C3: the number of transport calls never exceeds maxIterations; and a run
\* whose responses all carried tool calls ends with the BudgetExceeded error,
\* and no message, after exactly maxIterations transport calls.
C3_BudgetExceeded ==
    /\ callCount <= maxIterations
    /\ (Finished /\ responses # << >>
            /\ \A i \in DOMAIN responses : CarriesToolCalls(responses[i])) =>
          /\ pc = "BudgetExceeded"
          /\ callCount = maxIterations
          /\ result = << >>
          /\ err # << >> /\ ErrorContains(err[1], BudgetExceededText)
    /\ pc = "BudgetExceeded" => callCount = maxIterations

C3_Witness ==
    /\ pc = "BudgetExceeded"
    /\ maxIterations > 1
    /\ callCount = maxIterations
    /\ \A i \in DOMAIN responses : CarriesToolCalls(responses[i])

\* A transport call that failed in one of the ways the claim lists.
TransportFailed(r) ==
    \/ r.doErr # << >>
    \/ r.StatusCode # StatusOK
    \/ ~r.body.json
    \/ Len(r.body.choices) = 0

\* C4 as stated: a response that is a network error, a non-success status, an
\* undecodable body or a body with zero choices is the last one of the run,
\* and the run returns an error and no message.
C4_Original ==
    \A i \in DOMAIN responses :
        TransportFailed(responses[i]) =>
            /\ i = Len(responses)
            /\ pc = "Failed"
            /\ err # << >>
            /\ result = << >>

\* C5: when getCompletion fails, payload.Messages is what it was before the
\* call: the messages the failing request sent (the initial ones when no
\* request could be built), so that nothing is appended and nothing appended
\* earlier is lost.
C5_FailureAppendsNothing ==
    pc = "Failed" =>
        IF requests = << >> THEN payload.Messages \in InitialMessages
        ELSE payload.Messages = Last(requests)

C5_Witness ==
    /\ pc = "Failed"
    /\ callCount = 2
    /\ Len(payload.Messages) > Len(requests[1]) + 1

\* C6 as stated: after a network error the loop returns the very error value
\* o.client.Do produced.
C6_Original ==
    (pc = "Failed" /\ responses # << >> /\ Last(responses).doErr # << >>) =>
        err = Last(responses).doErr

\* C6 (amended): after a network error the loop returns a new error, of
\* fmt.Errorf, whose text starts "error making request" and which wraps the
\* error o.client.Do produced: errors.Unwrap gives that error.
C6_WrappedTransportError ==
    (pc = "Failed" /\ responses # << >> /\ Last(responses).doErr # << >>) =>
        /\ result = << >>
        /\ err # << >>
        /\ err[1].chain[1] = [class |-> "fmt", text |-> "error making request"]
        /\ Unwrap(err[1]) = Last(responses).doErr

C6_Witness ==
    /\ pc = "Failed"
    /\ callCount = 2
    /\ Last(responses).doErr = <<TransportError>>

\* The place of the tool call with this id in a tool_calls sequence.
CallPos(toolCalls, id) == CHOOSE i \in DOMAIN toolCalls : toolCalls[i].Id = id

\* C7: the tool-result messages appended for one assistant message answer
\* tool calls of that message, in the order of its tool_calls sequence.
C7_ResultsInCallOrder ==
    \A k \in DOMAIN requests :
        HasAssistant(k) =>
            LET toolCalls == Assistant(k).ToolCalls
                results == ResultsOf(k)
            IN /\ \A j \in DOMAIN results :
                     \E i \in DOMAIN toolCalls : toolCalls[i].Id = results[j].ToolCallId
               /\ \A j1, j2 \in DOMAIN results :
                     j1 < j2 => CallPos(toolCalls, results[j1].ToolCallId)
                                    < CallPos(toolCalls, results[j2].ToolCallId)

C7_Witness ==
    /\ HasAssistant(1)
    /\ Len(Assistant(1).ToolCalls) = 2
    /\ Len(ResultsOf(1)) = 2
    /\ pc = "Requesting"

\* The tool call the dispatcher is at.
CurrentCall == message[1].ToolCalls[tcIdx]

AtCall == pc = "Dispatching" /\ tcIdx <= Len(message[1].ToolCalls)

\* The message being dispatched holds a tool call with an unregistered name.
SkipsACall ==
    /\ pc = "Dispatching"
    /\ \E i \in DOMAIN message[1].ToolCalls : ~Registered(message[1].ToolCalls[i])

\* C8: the step that dispatches a tool call with an unregistered name appends
\* nothing, invokes nothing, returns no error and moves on to the next tool
\* call; and when such a message is done and iterations are left, the loop
\* goes back to requesting, where the next transport call is made.
C8_UnregisteredCallSkipped ==
    [][/\ (AtCall /\ ~Registered(CurrentCall)) =>
              /\ payload' = payload
              /\ invoked' = invoked
              /\ pc' = "Dispatching"
              /\ tcIdx' = tcIdx + 1
              /\ err' = err
       /\ (SkipsACall /\ ~AtCall /\ iter < maxIterations) => pc' = "Requesting"
       /\ (pc = "Requesting" /\ requestOk) => callCount' = callCount + 1]_vars

C8_Witness ==
    /\ callCount = 2
    /\ HasAssistant(1)
    /\ Len(Assistant(1).ToolCalls) = 2
    /\ ~Registered(Assistant(1).ToolCalls[1])
    /\ Registered(Assistant(1).ToolCalls[2])
    /\ Len(ResultsOf(1)) = 1

\* C9: a message the dispatcher appends is one message, of role tool, whose
\* tool_call_id is the id of the tool call being dispatched and whose content
\* is what the callable registered under the call's name returns for the call's
\* arguments.
C9_ToolResultMessage ==
    [][(pc = "Dispatching" /\ payload'.Messages # payload.Messages) =>
          payload'.Messages =
              Append(payload.Messages,
                     [Role |-> MessageRoleTool,
                      Content |-> Call(RegisteredFn(CurrentCall.Function.Name),
                                       CurrentCall.Function.Arguments),
                      ToolCalls |-> << >>,
                      ToolCallId |-> CurrentCall.Id])]_vars

C9_Witness ==
    /\ Len(payload.Messages) > 0
    /\ Last(payload.Messages).Role = MessageRoleTool
    /\ Last(payload.Messages).ToolCallId = "t2"
    /\ Last(payload.Messages).Content = Call("echo2Fn", "a2")

\* C10: every step leaves the message list before it a prefix of the message
\* list after it.
C10_AppendOnly == [][IsPrefix(payload.Messages, payload'.Messages)]_vars

C10_Witness ==
    /\ Finished
    /\ callCount = 2
    /\ Len(payload.Messages) >= Len(requests[1]) + 4

\* The tool-result messages of a sequence of tool calls whose names are all
\* registered: one per call, in order.
ResultsFor(toolCalls) ==
    [i \in DOMAIN toolCalls |->
        [Role |-> MessageRoleTool,
         Content |-> Call(RegisteredFn(toolCalls[i].Function.Name),
                          toolCalls[i].Function.Arguments),
         ToolCalls |-> << >>,
         ToolCallId |-> toolCalls[i].Id]]

\* The initial conversation followed, for each of the first k responses, by
\* the message of its first choice and that message's tool results.
RECURSIVE ConversationAfter(_)
ConversationAfter(k) ==
    IF k = 0 THEN requests[1]
    ELSE ConversationAfter(k - 1) \o <<ResponseMessage(responses[k])>>
             \o ResultsFor(ResponseMessage(responses[k]).ToolCalls)

RECURSIVE ToolCallsUpTo(_)
ToolCallsUpTo(k) ==
    IF k = 0 THEN 0
    ELSE ToolCallsUpTo(k - 1) + Len(ResponseMessage(responses[k]).ToolCalls)

AllRequestedRegistered ==
    \A k \in DOMAIN responses :
        \A i \in DOMAIN ResponseMessage(responses[k]).ToolCalls :
            Registered(ResponseMessage(responses[k]).ToolCalls[i])

\* C11: when the loop returns a message and every tool call it was asked for
\* names a registered tool, the conversation is the initial one followed, per
\* iteration in order, by the assistant message and its tool results, the last
\* assistant message closing it; its length is the initial length plus the
\* number of transport calls plus the number of tool calls, all dispatched.
C11_FinalConversation ==
    (pc = "Terminal" /\ AllRequestedRegistered) =>
        /\ requests[1] \in InitialMessages
        /\ payload.Messages = ConversationAfter(Len(responses))
        /\ Last(payload.Messages) = ResponseMessage(Last(responses))
        /\ Len(invoked) = ToolCallsUpTo(Len(responses))
        /\ Len(payload.Messages) = Len(requests[1]) + callCount + Len(invoked)

C11_Witness ==
    /\ pc = "Terminal"
    /\ AllRequestedRegistered
    /\ Len(requests[1]) = 1
    /\ callCount = 2
    /\ Len(ResponseMessage(responses[1]).ToolCalls) = 1
    /\ Len(payload.Messages) = 4

\* C12: a returned message comes with a nil error, carries no tool calls and is
\* the last message of payload.Messages; and an assistant message without tool
\* calls, whatever its content, is the last message of the run: the loop is
\* about to return it or has returned it, and nothing is appended after it.
C12_ReturnedMessage ==
    /\ result # << >> =>
          /\ pc = "Terminal"
          /\ err = << >>
          /\ Len(result[1].ToolCalls) = 0
          /\ result[1] = Last(payload.Messages)
    /\ pc = "Terminal" => result # << >>
    /\ \A k \in DOMAIN requests :
          (HasAssistant(k) /\ Len(Assistant(k).ToolCalls) = 0) =>
              /\ k = Len(requests)
              /\ Len(payload.Messages) = Len(requests[k]) + 1
              /\ pc \in {"Inspecting", "Terminal"}

C12_Witness ==
    /\ pc = "Terminal"
    /\ callCount = 2
    /\ Len(Assistant(1).ToolCalls) = 2
    /\ result[1].Content = << >>
    /\ result[1].ToolCalls = << >>

\* A response with status 200 whose body decodes and holds no choice.
ZeroChoices(r) ==
    /\ r.doErr = << >>
    /\ r.readErr = << >>
    /\ r.StatusCode = StatusOK
    /\ r.body.json
    /\ Len(r.body.choices) = 0

\* C13: a response that decodes and has zero choices is the last one of the
\* run; the loop returns an error and no message, the error being an
\* invalid-request OpenAIError or an error that says no choices were returned;
\* the conversation is what the request sent, and nothing panics.
C13_ZeroChoicesFail ==
    \A i \in DOMAIN responses :
        ZeroChoices(responses[i]) =>
            /\ i = Len(responses)
            /\ pc = "Failed"
            /\ result = << >>
            /\ err # << >>
            /\ \/ err[1].Type = ErrTypeInvalidRequest
               \/ ErrorContains(err[1], "no choices returned")
            /\ payload.Messages = requests[i]

\* A response that arrived and was read, with a status other than 200.
NonSuccess(r) ==
    /\ r.doErr = << >>
    /\ r.readErr = << >>
    /\ r.StatusCode # StatusOK

\* C14 as stated: a response with a non-success status, whatever its body, is
\* the last one of the run; the loop returns no message and an OpenAIError
\* whose type is the body's when the body gives one and the status's
\* otherwise; the conversation is what the request sent.
C14_Original ==
    \A i \in DOMAIN responses :
        NonSuccess(responses[i]) =>
            /\ i = Len(responses)
            /\ pc = "Failed"
            /\ result = << >>
            /\ err # << >>
            /\ err[1].chain[1].class = "OpenAIError"
            /\ err[1].Type = IF responses[i].body.json /\ responses[i].body.type # ""
                             THEN responses[i].body.type
                             ELSE StatusType(responses[i].StatusCode)
            /\ payload.Messages = requests[i]

\* What of C14 the build with the status check does: the run fails there, with
\* a classified error when the body is a JSON object.
C14_Part003 ==
    \A i \in DOMAIN responses :
        (version = "part_003" /\ NonSuccess(responses[i])) =>
            /\ i = Len(responses)
            /\ pc = "Failed"
            /\ result = << >>
            /\ err # << >>
            /\ responses[i].body.json =>
                  /\ err[1].chain[1].class = "OpenAIError"
                  /\ err[1].Type = IF responses[i].body.type # ""
                                   THEN responses[i].body.type
                                   ELSE StatusType(responses[i].StatusCode)
            /\ payload.Messages = requests[i]

\* C15 as stated: the run never panics, and when it is over it has returned a
\* message or an error.
C15_Original ==
    /\ pc # "Panicked"
    /\ Finished => (result # << >> \/ err # << >>)

\* What a caller can tell of an error without reading its text: its dynamic
\* type (errors.As) and, for an OpenAIError, its Type (GetOpenAIErrorType).
Classification(e) == <<e.chain[1].class, e.Type>>

\* The errors this build returns for a response with zero choices and for an
\* undecodable one, and the error classified from an API response of status
\* 400.
MalformedResponseErrors ==
    {getCompletion(version, TRUE, payload, HttpResponse(StatusOK, body)).err[1] :
        body \in {CompletionBody(<< >>), Garbage}}

InvalidRequestApiError ==
    NewOpenAIError(StatusBadRequest, Body(TRUE, "", "bad request", "", << >>))

\* C16 as stated: the error of a run that hit the iteration ceiling has a
\* classification other than that of the malformed-response errors and other
\* than that of an invalid-request error classified from an API response.
C16_Original ==
    pc = "BudgetExceeded" =>
        /\ \A e \in MalformedResponseErrors :
              Classification(err[1]) # Classification(e)
        /\ Classification(err[1]) # Classification(InvalidRequestApiError)

\* What of C16 holds: the text of the budget error is that of no other error.
C16_TextDiffers ==
    pc = "BudgetExceeded" =>
        /\ ErrorContains(err[1], BudgetExceededText)
        /\ \A e \in MalformedResponseErrors \cup {InvalidRequestApiError} :
              ~ErrorContains(e, BudgetExceededText)

\* The tool-result messages of the conversation, in order.
ToolResults == SelectSeq(payload.Messages, LAMBDA m : m.Role = MessageRoleTool)

\* C17: every callable invoked is the one of the last definition in
\* payload.Tools that carries the name of the tool call, and each tool result
\* comes from exactly one invocation: the i-th result answers the i-th
\* invocation and holds what that callable returned.
C17_LastWriteWins ==
    /\ \A i \in DOMAIN invoked : invoked[i].Fn = RegisteredFn(invoked[i].Name)
    /\ Len(invoked) = Len(ToolResults)
    /\ \A i \in DOMAIN invoked :
          /\ ToolResults[i].ToolCallId = invoked[i].Id
          /\ ToolResults[i].Content = Call(invoked[i].Fn, invoked[i].Arguments)

C17_Witness ==
    /\ Len(payload.Tools) = 3
    /\ payload.Tools[1].Function[1].Fn = "echoFn"
    /\ Len(invoked) = 2
    /\ \A i \in DOMAIN invoked : invoked[i].Name = "echo" /\ invoked[i].Fn = "echo2Fn"

\* The type the claim gives for a status code.
TypeOfStatus(statusCode) ==
    CASE statusCode = 400 -> "invalid_request_error"
      [] statusCode = 401 -> "authentication_error"
      [] statusCode = 429 -> "rate_limit_error"
      [] statusCode = 503 -> "service_unavailable"
      [] statusCode = 404 -> "not_found"
      [] OTHER -> "unknown_error"

\* C18: for a body that decodes, NewOpenAIError returns an OpenAIError whose
\* type is the body's type when that is not empty and the type of the status
\* code otherwise, and whose message and code are the body's.
C18_Classified ==
    (Called("NewOpenAIError") /\ ret # << >> /\ call[1].body.json) =>
        /\ ret[1].chain = <<[class |-> "OpenAIError", text |-> call[1].body.message]>>
        /\ ret[1].Code = call[1].body.code
        /\ ret[1].Type = IF call[1].body.type # "" THEN call[1].body.type
                         ELSE TypeOfStatus(call[1].statusCode)

C18_Witness ==
    /\ Called("NewOpenAIError")
    /\ ret # << >>
    /\ call[1].statusCode = StatusBadRequest
    /\ call[1].body.json
    /\ call[1].body.type = "insufficient_quota"
    /\ ret[1].Type = "insufficient_quota"

\* The type constant the claim gives for a constructor.
TypeOfConstructor(fn) ==
    CASE fn = "NewInvalidRequestError" -> "invalid_request_error"
      [] fn = "NewAuthenticationError" -> "authentication_error"
      [] fn = "NewRateLimitError" -> "rate_limit_error"
      [] fn = "NewServiceUnavailableError" -> "service_unavailable"
      [] fn = "NewNotFoundError" -> "not_found"

\* The error is an OpenAIError value; the error is one or wraps one.
IsOpenAIErrorValue(e) == e # << >> /\ e[1].chain[1].class = "OpenAIError"

RECURSIVE HoldsOpenAIError(_)
HoldsOpenAIError(e) ==
    e # << >> /\ (IsOpenAIErrorValue(e) \/ HoldsOpenAIError(Unwrap(e[1])))

\* What the constructors and GetOpenAIErrorType do, as C19 states it.
ConstructorsAndType ==
    /\ (call # << >> /\ call[1].fn \in Constructors /\ ret # << >>) =>
          ret[1] = [Type |-> TypeOfConstructor(call[1].fn), Code |-> "",
                    chain |-> <<[class |-> "OpenAIError",
                                 text |-> call[1].message]>>]
    /\ (Called("GetOpenAIErrorType") /\ ret # << >>) =>
          ret[1] = IF IsOpenAIErrorValue(call[1].err) THEN call[1].err[1].Type ELSE ""

\* C19 as stated: each constructor returns an OpenAIError with its own type
\* and the message given; IsOpenAIError is true for the OpenAIError values and
\* for nothing else; GetOpenAIErrorType is the type of an OpenAIError value
\* and the empty string for anything else.
C19_Original ==
    /\ ConstructorsAndType
    /\ (Called("IsOpenAIError") /\ ret # << >>) =>
          ret[1] = IsOpenAIErrorValue(call[1].err)

\* C19 (amended): as stated for the constructors and for GetOpenAIErrorType;
\* IsOpenAIError is true for the errors that are an OpenAIError value or wrap
\* one, at any depth, and false for nil and for every other error.
C19_IsOpenAIErrorUnwraps ==
    /\ ConstructorsAndType
    /\ (Called("IsOpenAIError") /\ ret # << >>) =>
          ret[1] = HoldsOpenAIError(call[1].err)

C19_Witness ==
    /\ Called("IsOpenAIError")
    /\ ret = <<TRUE>>
    /\ ~IsOpenAIErrorValue(call[1].err)
    /\ GetOpenAIErrorType(call[1].err) = ""

\* The model the claim's precedence gives.
ModelByPrecedence(model) ==
    IF model # "" THEN model
    ELSE IF env["OPENAI_MODEL"] # "" THEN env["OPENAI_MODEL"]
    ELSE "gpt-4o-mini"

\* C20 as stated: GetCompletion leaves in the payload the model of the
\* payload, else that of OPENAI_MODEL, else "gpt-4o-mini"; the loop never
\* changes it, and no request is sent with an empty model.
C20_Original ==
    /\ [][/\ pc = "Entry" => payload'.Model = ModelByPrecedence(payload.Model)
          /\ pc # "Entry" => payload'.Model = payload.Model]_vars
    /\ [](callCount > 0 => payload.Model # "")

\* What of C20 both builds do: a model set in the payload is kept, and
\* OPENAI_MODEL, when set, is the model of a payload without one.
C20_PayloadThenEnv ==
    [][/\ (pc = "Entry" /\ (payload.Model # "" \/ env["OPENAI_MODEL"] # "")) =>
             payload'.Model = ModelByPrecedence(payload.Model)
       /\ (pc = "Entry" /\ version = "part_003") =>
             payload'.Model = ModelByPrecedence(payload.Model)
       /\ pc # "Entry" => payload'.Model = payload.Model]_vars

\* The value the claim's precedence gives: the argument, else the variable of
\* the environment, else the default.
ByPrecedence(argument, name, default) ==
    IF argument # "" THEN argument
    ELSE IF env[name] # "" THEN env[name]
    ELSE default

\* C21 as stated: the constructor returns a client with the base URL and the
\* key the precedence gives, "https://api.openai.com" being the default base
\* URL; and when no key is given it returns no client and an error of type
\* authentication_error.
C21_Original ==
    (Called("New") /\ ret # << >>) =>
        LET url == ByPrecedence(call[1].baseUrl, "OPENAI_BASE_URL",
                                "https://api.openai.com")
            key == ByPrecedence(call[1].apiKey, "OPENAI_API_KEY", "")
        IN IF key = ""
           THEN /\ ret[1].client = << >>
                /\ ret[1].err # << >>
                /\ IsOpenAIErrorValue(ret[1].err)
                /\ ret[1].err[1].Type = "authentication_error"
           ELSE /\ ret[1].err = << >>
                /\ ret[1].client # << >>
                /\ ret[1].client[1].baseUrl = url
                /\ ret[1].client[1].key = key

\* What of C21 both builds do: an argument wins over the environment, the
\* environment fills an empty argument; and the build of part_003 does all
\* that C21 states.
C21_ArgumentThenEnv ==
    /\ (Called("New") /\ ret # << >> /\ ret[1].client # << >>) =>
          /\ (call[1].baseUrl # "" \/ env["OPENAI_BASE_URL"] # "") =>
                ret[1].client[1].baseUrl
                    = ByPrecedence(call[1].baseUrl, "OPENAI_BASE_URL", "")
          /\ ret[1].client[1].key = ByPrecedence(call[1].apiKey, "OPENAI_API_KEY", "")
    /\ version = "part_003" => C21_Original

\* C22 as stated: GetEmbedding calls o.client.Do once and no more, never
\* panics, and returns the embedding of the first data entry with a nil error
\* or no embedding with an error; the error of a failed o.client.Do wraps its
\* cause, and a response without data entries gives an error.
C22_Original ==
    Called("GetEmbedding") =>
        /\ callCount <= 1
        /\ requestOk => callCount = 1
        /\ ~ret[1].panic
        /\ \/ /\ ret[1].err = << >>
              /\ ret[1].embedding = <<Last(responses).body.data[1].Embedding>>
           \/ /\ ret[1].err # << >>
              /\ ret[1].embedding = << >>
        /\ (responses # << >> /\ Last(responses).doErr # << >>) =>
              Unwrap(ret[1].err[1]) = Last(responses).doErr

\* What of C22 holds: at most one transport call; a failed o.client.Do gives
\* an error that wraps its cause; and unless the call panics it returns the
\* embedding of the first data entry or an error, never both.
C22_UnlessNoData ==
    Called("GetEmbedding") =>
        /\ callCount <= 1
        /\ requestOk => callCount = 1
        /\ ret[1].panic <=>
              /\ responses # << >>
              /\ Last(responses).doErr = << >>
              /\ Last(responses).readErr = << >>
              /\ Last(responses).body.json
              /\ Len(Last(responses).body.data) = 0
              /\ version = "part_003" => Last(responses).StatusCode = StatusOK
        /\ ~ret[1].panic =>
              \/ /\ ret[1].err = << >>
                 /\ ret[1].embedding = <<Last(responses).body.data[1].Embedding>>
              \/ /\ ret[1].err # << >>
                 /\ ret[1].embedding = << >>
        /\ (responses # << >> /\ Last(responses).doErr # << >>) =>
              Unwrap(ret[1].err[1]) = Last(responses).doErr

\* The transitions of the claim's state machine out of Inspecting and out of
\* Dispatching, the absorbing states, and the counter outside Requesting.
MachineAfterRequest ==
    /\ pc = "Inspecting" =>
          \/ pc' = "Terminal" /\ Len(Last(payload.Messages).ToolCalls) = 0
          \/ pc' = "Dispatching" /\ Len(Last(payload.Messages).ToolCalls) > 0
    /\ pc = "Dispatching" =>
          \/ pc' = "Dispatching"
          \/ pc' = "Requesting" /\ iter < maxIterations
          \/ pc' = "BudgetExceeded" /\ iter = maxIterations
    /\ pc \in {"Terminal", "BudgetExceeded", "Failed"} => pc' = pc
    /\ pc # "Requesting" => iter' = iter

\* C23 as stated: the loop is always in one of the six states, and a step
\* takes Requesting to Inspecting with one message appended or to Failed, the
\* counter going up by one; Inspecting to Terminal or Dispatching; Dispatching
\* to Requesting or BudgetExceeded; Terminal, BudgetExceeded and Failed to
\* nothing else.
C23_Original ==
    /\ [](pc \in {"Requesting", "Inspecting", "Dispatching", "Terminal",
                   "BudgetExceeded", "Failed"})
    /\ [][/\ pc = "Requesting" =>
               /\ iter' = iter + 1
               /\ \/ /\ pc' = "Inspecting"
                     /\ Len(payload'.Messages) = Len(payload.Messages) + 1
                  \/ /\ pc' = "Failed"
                     /\ payload'.Messages = payload.Messages
          /\ MachineAfterRequest]_vars

\* What of C23 holds: the same machine with one more way out of Requesting,
\* the panic of getCompletion, after which nothing happens.
C23_WithPanic ==
    /\ [](pc \in {"Requesting", "Inspecting", "Dispatching", "Terminal",
                   "BudgetExceeded", "Failed", "Panicked"})
    /\ [][/\ pc = "Requesting" =>
               /\ iter' = iter + 1
               /\ \/ /\ pc' = "Inspecting"
                     /\ Len(payload'.Messages) = Len(payload.Messages) + 1
                  \/ /\ pc' \in {"Failed", "Panicked"}
                     /\ payload'.Messages = payload.Messages
          /\ pc = "Panicked" => pc' = pc
          /\ MachineAfterRequest]_vars

\* The tool calls of a sequence whose name is registered, in order, and their
\* tool-result messages.
RegisteredCalls(toolCalls) == SelectSeq(toolCalls, LAMBDA tc : Registered(tc))

ResultsForRegistered(toolCalls) == ResultsFor(RegisteredCalls(toolCalls))

\* The conversation when request k is built: the initial messages, then for
\* each earlier response its assistant message and the results of its
\* registered tool calls.
RECURSIVE HistoryBefore(_)
HistoryBefore(k) ==
    IF k = 1 THEN requests[1]
    ELSE HistoryBefore(k - 1) \o <<ResponseMessage(responses[k - 1])>>
             \o ResultsForRegistered(ResponseMessage(responses[k - 1]).ToolCalls)

\* C24: the body of the k-th request holds the initial messages, the
\* assistant message of every earlier iteration and, right after each, every
\* tool result appended for it: all results of iteration k-1 are in the k-th
\* request.
C24_RequestHoldsHistory ==
    \A k \in DOMAIN requests :
        /\ requests[1] \in InitialMessages
        /\ requests[k] = HistoryBefore(k)

C24_Witness ==
    /\ Len(requests) = 2
    /\ Len(ResponseMessage(responses[1]).ToolCalls) = 2
    /\ Len(requests[2]) = Len(requests[1]) + 3
    /\ requests[2][Len(requests[2])].Role = MessageRoleTool

\* The invocations a sequence of tool calls asks for: one per call whose name
\* is registered, in order, of the callable registered under the name.
InvocationsOf(toolCalls) ==
    LET calls == RegisteredCalls(toolCalls)
    IN [i \in DOMAIN calls |->
           [Name |-> calls[i].Function.Name,
            Fn |-> RegisteredFn(calls[i].Function.Name),
            Arguments |-> calls[i].Function.Arguments,
            Id |-> calls[i].Id]]

\* The assistant messages received so far, and the invocations the first k of
\* them ask for.
Received == Cardinality({k \in DOMAIN requests : HasAssistant(k)})

RECURSIVE InvokedThrough(_)
InvokedThrough(k) ==
    IF k = 0 THEN << >>
    ELSE InvokedThrough(k - 1) \o InvocationsOf(Assistant(k).ToolCalls)

\* C25: outside the dispatcher, the callables invoked so far are those of the
\* resolvable tool calls of every assistant message received, each once, in
\* the order received: so when the next request is made nothing of the latest
\* message is left over and nothing is invoked again. Inside the dispatcher
\* the calls of the latest message are invoked one at a time, in order.
C25_WithinIteration ==
    CASE pc = "Inspecting" -> invoked = InvokedThrough(Received - 1)
      [] pc = "Dispatching" ->
            /\ message = <<Assistant(Received)>>
            /\ invoked = InvokedThrough(Received - 1)
                  \o InvocationsOf(SubSeq(message[1].ToolCalls, 1, tcIdx - 1))
      [] OTHER -> invoked = InvokedThrough(Received)

C25_Witness ==
    /\ pc = "Requesting"
    /\ callCount = 1
    /\ Len(Assistant(1).ToolCalls) = 2
    /\ Len(invoked) = 2
    /\ invoked[1].Id = "t1"
    /\ invoked[2].Id = "t2"

\* C26: when a transport call succeeded, the conversation is the one the
\* request sent followed by exactly one message, that of the first choice of
\* the response; and the message the loop inspected for tool calls, whether
\* it went on to dispatch it or returned it, is that message, the last of the
\* conversation at that moment.
C26_OneMessagePerIteration ==
    /\ pc = "Inspecting" =>
          payload.Messages
              = Append(Last(requests), Last(responses).body.choices[1].Message[1])
    /\ pc = "Dispatching" =>
          /\ message = <<Last(responses).body.choices[1].Message[1]>>
          /\ message[1] = payload.Messages[Len(Last(requests)) + 1]
    /\ pc = "Terminal" =>
          /\ result = <<Last(responses).body.choices[1].Message[1]>>
          /\ payload.Messages = Append(Last(requests), result[1])

C26_Witness ==
    /\ pc = "Inspecting"
    /\ callCount = 2
    /\ Len(Last(responses).body.choices) = 2
    /\ Last(payload.Messages).Content = <<"first">>

\* C27: the loop holds an error exactly when it has left through one of its
\* two error exits: Failed, with the error its last call of getCompletion
\* returned, and BudgetExceeded, with the budget error after maxIterations
\* iterations. No error is the wrapped error of handleToolCalls, and the
\* dispatcher runs and ends with no error.
C27_DispatcherNeverFails ==
    /\ err # << >> <=> pc \in {"Failed", "BudgetExceeded"}
    /\ err # << >> => ~ErrorContains(err[1], "error handling tool calls")
    /\ pc = "Failed" =>
          err = IF requestOk
                THEN getCompletion(version, TRUE, payload, Last(responses)).err
                ELSE getCompletion(version, FALSE, payload,
                                   HttpResponse(StatusOK, Garbage)).err
    /\ pc = "BudgetExceeded" =>
          /\ iter = maxIterations
          /\ ErrorContains(err[1], BudgetExceededText)
          /\ Len(Last(payload.Messages).ToolCalls) > 0
                \/ Last(payload.Messages).Role = MessageRoleTool

C27_Witness ==
    /\ pc = "Terminal"
    /\ callCount = 2
    /\ Len(Assistant(1).ToolCalls) = 2
    /\ \A i \in DOMAIN Assistant(1).ToolCalls : ~Registered(Assistant(1).ToolCalls[i])
    /\ err = << >>

\* C28 as stated: every run reaches one of the three exits: the final answer,
\* the error of the transport adapter, the exhaustion of the iterations.
C28_Original == <>(pc \in {"Terminal", "Failed", "BudgetExceeded"})

\* What of C28 holds: every run ends, through one of the three exits or
\* through the panic of getCompletion; and it makes no step after that.
C28_Ends ==
    /\ <>Finished
    /\ [][~Finished]_vars

\* The last n elements of a sequence.
LastN(seq, n) == SubSeq(seq, Len(seq) - n + 1, Len(seq))

\* C29 as stated: when the loop has run out, as many requests were sent as
\* iterations allowed, and every tool call of the last response has been
\* dispatched: the conversation ends with the last assistant message and one
\* tool result per tool call of it, in order, and the last invocations are
\* those of these calls.
C29_Original ==
    pc = "BudgetExceeded" =>
        LET toolCalls == ResponseMessage(Last(responses)).ToolCalls
            n == Len(toolCalls)
        IN /\ Len(requests) = maxIterations
           /\ Len(payload.Messages) = Len(Last(requests)) + 1 + n
           /\ \A i \in 1..n :
                 /\ LastN(payload.Messages, n)[i].Role = MessageRoleTool
                 /\ LastN(payload.Messages, n)[i].ToolCallId = toolCalls[i].Id
           /\ Len(invoked) >= n
           /\ \A i \in 1..n : LastN(invoked, n)[i].Id = toolCalls[i].Id

\* C29 (amended): when the loop has run out, as many requests were sent as
\* iterations allowed, and the conversation is what the last request sent,
\* the last assistant message, and the tool results of its tool calls whose
\* name is registered, in order; the last invocations are those of these
\* calls; a tool call whose name is not registered has no result and no
\* invocation.
C29_LastCallsDispatched ==
    pc = "BudgetExceeded" =>
        LET toolCalls == ResponseMessage(Last(responses)).ToolCalls
            n == Len(RegisteredCalls(toolCalls))
        IN /\ Len(requests) = maxIterations
           /\ callCount = maxIterations
           /\ payload.Messages
                 = Last(requests) \o <<ResponseMessage(Last(responses))>>
                       \o ResultsForRegistered(toolCalls)
           /\ Len(invoked) >= n
           /\ LastN(invoked, n) = InvocationsOf(toolCalls)

C29_Witness ==
    /\ pc = "BudgetExceeded"
    /\ maxIterations = 2
    /\ Len(ResponseMessage(Last(responses)).ToolCalls) = 2
    /\ Len(RegisteredCalls(ResponseMessage(Last(responses)).ToolCalls)) = 1
    /\ Last(payload.Messages).Role = MessageRoleTool

\* The messages the run started with.
StartMessages == IF requests = << >> THEN payload.Messages ELSE requests[1]

\* C30: at every point of a run that started with NewMessages empty, and so
\* at each of its exits, Messages is the messages the run started with
\* followed by NewMessages; every step appends the same messages to both and
\* leaves the model and the tools of the payload as they were.
C30_NewMessagesInStep ==
    /\ [](/\ StartMessages \in InitialMessages
          /\ payload.Messages = StartMessages \o payload.NewMessages)
    /\ [][/\ payload'.Model = payload.Model
          /\ payload'.Tools = payload.Tools
          /\ IsPrefix(payload.NewMessages, payload'.NewMessages)
          /\ Len(payload'.NewMessages) - Len(payload.NewMessages)
                = Len(payload'.Messages) - Len(payload.Messages)]_vars

C30_Witness ==
    /\ pc = "BudgetExceeded"
    /\ maxIterations = 2
    /\ Len(payload.NewMessages) = 5
    /\ payload.NewMessages[1].Role = MessageRoleAssistant
    /\ payload.NewMessages[5].Role = MessageRoleTool

\* What caller i's run produces from its own payload and the responses its own
\* requests were given, whatever the other caller does: the callable its
\* tools bind to a name, the messages one response adds (the response's
\* message, then one result per tool call its tools register), and the
\* conversation and the answer after all its responses.
SoloRegistered(i, name) ==
    \E k \in DOMAIN PairPayloads[i].Tools :
        PairPayloads[i].Tools[k].Function[1].Name = name

SoloFn(i, name) ==
    LET tools == PairPayloads[i].Tools
        last == CHOOSE k \in DOMAIN tools :
                    /\ tools[k].Function[1].Name = name
                    /\ \A j \in DOMAIN tools :
                           tools[j].Function[1].Name = name => j <= k
    IN tools[last].Function[1].Fn

RECURSIVE SoloResults(_, _, _)
SoloResults(i, toolCalls, k) ==
    IF k = 0 THEN << >>
    ELSE LET tc == toolCalls[k]
         IN SoloResults(i, toolCalls, k - 1) \o
                (IF SoloRegistered(i, tc.Function.Name)
                 THEN <<Message(MessageRoleTool,
                                <<SoloFn(i, tc.Function.Name), tc.Function.Arguments>>,
                                << >>, tc.Id)>>
                 ELSE << >>)

SoloTurn(i, r) ==
    IF CarriesMessage(r)
    THEN <<ResponseMessage(r)>> \o
             SoloResults(i, ResponseMessage(r).ToolCalls,
                         Len(ResponseMessage(r).ToolCalls))
    ELSE << >>

RECURSIVE SoloAdded(_, _, _)
SoloAdded(i, rs, k) ==
    IF k = 0 THEN << >> ELSE SoloAdded(i, rs, k - 1) \o SoloTurn(i, rs[k])

SoloNewMessages(i) == SoloAdded(i, responses[i], Len(responses[i]))

SoloConversation(i) == PairPayloads[i].Messages \o SoloNewMessages(i)

SoloResult(i) ==
    IF responses[i] # << >> /\ NoToolCalls(Last(responses[i]))
    THEN <<ResponseMessage(Last(responses[i]))>>
    ELSE << >>

SoloModel(i) ==
    IF PairPayloads[i].Model # "" THEN PairPayloads[i].Model
    ELSE IF version = "part_003" /\ env["OPENAI_MODEL"] = "" THEN "gpt-4o-mini"
    ELSE env["OPENAI_MODEL"]

\* Caller i is between two of its own steps with its payload half written:
\* the response's message is appended and its tool results are not all there.
MidTurn(i) == pc[i] \in {"Inspecting", "Dispatching"}

\* Caller i's payload, result and invocations are those of its run alone.
AsAlone(i) ==
    /\ payload[i].Tools = PairPayloads[i].Tools
    /\ payload[i].Model = IF pc[i] = "Entry" THEN PairPayloads[i].Model
                          ELSE SoloModel(i)
    /\ IsPrefix(payload[i].Messages, SoloConversation(i))
    /\ IsPrefix(payload[i].NewMessages, SoloNewMessages(i))
    /\ ~MidTurn(i) =>
          /\ payload[i].Messages = SoloConversation(i)
          /\ payload[i].NewMessages = SoloNewMessages(i)
    /\ result[i] # << >> => pc[i] = "Terminal"
    /\ pc[i] = "Terminal" => result[i] = SoloResult(i) /\ result[i] # << >>
                                 /\ err[i] = << >>
    /\ \A k \in DOMAIN invoked[i] :
          /\ SoloRegistered(i, invoked[i][k].Name)
          /\ invoked[i][k].Fn = SoloFn(i, invoked[i][k].Name)

\* What belongs to caller i alone.
OwnedBy(i) ==
    <<payload[i], pc[i], iter[i], message[i], tcIdx[i], result[i], err[i],
      callCount[i], requests[i], responses[i], invoked[i]>>

\* A step is the step of one caller: it leaves the client and everything the
\* other caller owns as they were.
StepOfOne ==
    /\ call' = call
    /\ \E i \in Callers : \A j \in Callers \ {i} : OwnedBy(j)' = OwnedBy(j)

\* C31: two GetCompletion calls on one client with distinct payloads,
\* interleaved in any way, share no mutable state: at every moment each call's
\* payload, result and tool invocations are those its run alone produces from
\* its own payload and its own responses, the client's fields stay as they
\* were, and no step of one call changes anything the other call owns.
C31_SeparateCallsShareNothing ==
    /\ [](\A i \in Callers : AsAlone(i))
    /\ [](call = <<[fn |-> "GetCompletion", o |-> SharedClient]>>)
    /\ [][StepOfOne]_vars

\* Both calls are in the middle of dispatching tool calls, each having invoked
\* a callable of its own tools.
C31_Witness ==
    /\ \A i \in Callers : pc[i] = "Dispatching" /\ invoked[i] # << >>
    /\ invoked[1][1].Fn = "echoFn"
    /\ invoked[2][1].Fn = "echo2Fn"
    /\ Len(requests[1]) = 2

====
